---- MODULE Spec2Model ----
(***************************************************************************)
(* The Ascension UI cockpit panels of OMNIMIND as a state machine.         *)
(*                                                                         *)
(* Each panel is a React function component: its props are the snapshot    *)
(* bound by the parent, its useState cells are the interaction state, and  *)
(* what it shows is the element tree its body returns for (props, state).  *)
(* One component is rendered into a container (as ui.test.js does); the    *)
(* environment then re-renders it with new props (a snapshot bind) and     *)
(* dispatches pointer events to the handlers the last render attached.     *)
(***************************************************************************)
EXTENDS Integers, Sequences, FiniteSets, TLC

VARIABLES
    mounted,      \* the component rendered into the container
    nodes,        \* NeuralMesh props.nodes
    links,        \* NeuralMesh props.links
    activeNode,   \* NeuralMesh useState: the clicked node object, or null
    plugins,      \* PluginChamber props.plugins
    hovered,      \* PluginChamber useState: the hovered plugin id, or null
    selected,     \* PluginChamber useState: the clicked plugin object, or null
    events,       \* MindTimeline props.events
    tlSelected,   \* MindTimeline useState: the clicked event datum, or null
    svg,          \* MindTimeline: the children of the <svg> the effect drew
    pointerOn,    \* the rendered cubes (by index) the pointer is over
    emotion,      \* PlasmaOrb props.emotion, scalars in tenths
    orbRotation,  \* PlasmaOrb mesh.rotation.y, in thousandths of a radian
    orbScale,     \* PlasmaOrb mesh.scale, per axis in thousandths
    ctx,          \* AmbientLayer: whether canvas.getContext('2d') gave a context
    rafPending,   \* the frame callbacks requested and not yet run or cancelled
    animationId,  \* AmbientLayer: the id the last requestAnimationFrame returned
    drops,        \* AmbientLayer: the row of the falling character, per column
    cubeRotation, \* PluginCube mesh.rotation <<x, y>> per rendered cube, in thousandths
    derived,      \* every <<input, output>> a frame callback has derived so far
    conTab,       \* MorpheusConsole useState: the active tab
    conInput,     \* MorpheusConsole useState: the text of the input
    conHistory,   \* MorpheusConsole useState: the commands submitted
    conRender,    \* MorpheusConsole: the input and history its last render closed over
    responses,    \* stream API: what the handler has written to res for the request
    effectDone,   \* whether the effects of the mount commit have run
    frames,       \* the frame callbacks and draws run so far
    warnings,     \* what the components have written to the warning log
    last          \* the event handled last, with what it replaced

vars == <<mounted, nodes, links, activeNode, plugins, hovered, selected,
          events, tlSelected, svg, pointerOn, emotion, orbRotation, orbScale,
          ctx, rafPending, animationId, drops, cubeRotation, derived,
          conTab, conInput, conHistory, conRender, responses,
          effectDone, frames, warnings, last>>

meshVars == <<nodes, links, activeNode>>
chamberVars == <<plugins, hovered, selected, pointerOn>>
timelineVars == <<events, tlSelected, svg>>
orbVars == <<emotion, orbRotation, orbScale>>
ambientVars == <<ctx, rafPending, animationId, drops>>
consoleVars == <<conTab, conInput, conHistory, conRender>>
apiVars == <<responses>>

\* ------------------------------------------------------------------ bounds
MaxNodes == 2
MaxLinks == 1
MaxPlugins == 2
MaxEvents == 2
MaxFrames == 3
MaxHistory == 2
MaxRequests == 3
\* window.innerWidth and window.innerHeight, in pixels
InnerWidth == 20
InnerHeight == 40

\* ------------------------------------------------- JavaScript null / object
\* A nullable value: <<>> is null, <<x>> is the value x.
None == <<>>
Some(x) == <<x>>
Truthy(v) == v # None

BoundedSeq(S, n) == UNION {[1..k -> S] : k \in 0..n}

Min(S) == CHOOSE x \in S : \A y \in S : x <= y

\* ------------------------------------------------------------- NeuralMesh
NODE_TYPES == [episodic |-> "#3b82f6", semantic |-> "#22d3ee", procedural |-> "#f59e42"]

nodesStub ==
    << [id |-> 1, type |-> "episodic", position |-> <<0, 0, 0>>, label |-> "E1"],
       [id |-> 2, type |-> "semantic", position |-> <<2, 1, -1>>, label |-> "S1"],
       [id |-> 3, type |-> "procedural", position |-> <<-2, -1, 1>>, label |-> "P1"] >>

linksStub == << [source |-> 1, target |-> 2], [source |-> 2, target |-> 3] >>

\* The node objects the generated snapshots carry: the stub's first two, and
\* a second object under id 1 (new content for an id, or a repeated id within
\* one snapshot). No generated snapshot has a node 3, so a link to 3 dangles.
NodeUniverse ==
    {nodesStub[i] : i \in 1..2}
        \cup {[id |-> 1, type |-> "semantic", position |-> <<1, 1, 1>>, label |-> "E1b"]}

LinkUniverse == {linksStub[i] : i \in 1..2}

NodeInputs == BoundedSeq(NodeUniverse, MaxNodes) \cup {nodesStub}
LinkInputs == BoundedSeq(LinkUniverse, MaxLinks) \cup {linksStub}

\* nodes.find((n) => n.id === id): the first match, or undefined
FindNode(ns, id) ==
    LET hits == {i \in 1..Len(ns) : ns[i].id = id}
    IN  IF hits = {} THEN None ELSE Some(ns[Min(hits)])

\* Variant: active={activeNode} without the id comparison
NodeActiveAny(active, node) == Truthy(active)

\* active={activeNode && activeNode.id === node.id}
NodeActive(active, node) == Truthy(active) /\ active[1].id = node.id

\* <Node .../> : emissiveIntensity={active ? 1.5 : 0.2}, in tenths
NodeElement(node, active) ==
    [ key |-> node.id,
      position |-> node.position,
      color |-> NODE_TYPES[node.type],
      label |-> node.label,
      active |-> active,
      emissiveIntensity |-> IF active THEN 15 ELSE 2 ]

\* {nodes.map((node) => <Node key={node.id} ... />)}
RenderNodes(ns, active) ==
    [i \in 1..Len(ns) |-> NodeElement(ns[i], NodeActive(active, ns[i]))]

\* Variant: if (!source && !target) return null; a missing endpoint is drawn
\* from the other endpoint's position
RenderLinkEither(ns, link) ==
    LET source == FindNode(ns, link.source)
        target == FindNode(ns, link.target)
    IN  IF ~Truthy(source) /\ ~Truthy(target)
        THEN None
        ELSE Some([array |-> (IF Truthy(source) THEN source ELSE target)[1].position
                             \o (IF Truthy(target) THEN target ELSE source)[1].position])

\* one links.map callback: null when an endpoint is not found, else a <line>
RenderLink(ns, link) ==
    LET source == FindNode(ns, link.source)
        target == FindNode(ns, link.target)
    IN  IF ~Truthy(source) \/ ~Truthy(target)
        THEN None
        ELSE Some([array |-> source[1].position \o target[1].position])

\* {links.map((link, i) => ...)} : one slot per link, keyed by index
RenderLinks(ns, ls) == [i \in 1..Len(ls) |-> RenderLink(ns, ls[i])]

\* Variant: the overlay's heading and type line exchanged
MeshOverlaySwapped(active) ==
    IF Truthy(active)
    THEN Some([title |-> active[1].type, type |-> active[1].label])
    ELSE None

\* {activeNode && (<div> ... </div>)}
MeshOverlay(active) ==
    IF Truthy(active)
    THEN Some([title |-> active[1].label, type |-> active[1].type])
    ELSE None

\* onClick={() => setActiveNode(node)} of the i-th rendered node
onClickNode(ns, i) == Some(ns[i])

\* The links whose callback returned null in the render of (ns, ls)
SkippedLinks(ns, ls) == {i \in 1..Len(ls) : ~Truthy(RenderLinks(ns, ls)[i])}

Stamp(panel, ev, target, sel0, hov0, same, skipped0) ==
    [panel |-> panel, ev |-> ev, target |-> target, sel0 |-> sel0, hov0 |-> hov0,
     same |-> same, skipped0 |-> skipped0]

\* What one frame callback derived: for which entity, in which hover state,
\* the scale it shows and the rotation step <<x, y>> it made
Observation(entity, state, scale, delta) ==
    [entity |-> entity, state |-> state, scale |-> scale, delta |-> delta]

\* Whether component c is rendered: alone in the container, or as one of the
\* panels of the Home page
Live(c) == effectDone /\ (mounted = c \/ mounted = "home")

\* The parent re-renders <NeuralMesh nodes={ns} links={ls} />
BindMesh(ns, ls) ==
    /\ Live("mesh")
    /\ nodes' = ns
    /\ links' = ls
    /\ last' = Stamp("mesh", "bind", None, activeNode, None,
                     ns = nodes /\ ls = links,
                     {links[i] : i \in SkippedLinks(nodes, links)})
    /\ UNCHANGED <<mounted, activeNode, chamberVars, timelineVars, warnings, orbVars, ambientVars, effectDone, frames, cubeRotation, derived, consoleVars, apiVars>>

\* Variant: the click also writes the chamber's selection, as one selection
\* shared by the page would
ClickNodeShared(i) ==
    /\ Live("mesh")
    /\ i \in 1..Len(nodes)
    /\ activeNode' = onClickNode(nodes, i)
    /\ selected' = IF i \in 1..Len(plugins) THEN Some(plugins[i]) ELSE None
    /\ last' = Stamp("mesh", "click", Some(nodes[i]), activeNode, None, FALSE, {})
    /\ UNCHANGED <<mounted, nodes, links, plugins, hovered, pointerOn, timelineVars, warnings,
                   orbVars, ambientVars, effectDone, frames, cubeRotation, derived, consoleVars, apiVars>>

\* A click dispatched to the i-th rendered node
ClickNode(i) ==
    /\ Live("mesh")
    /\ i \in 1..Len(nodes)
    /\ activeNode' = onClickNode(nodes, i)
    /\ last' = Stamp("mesh", "click", Some(nodes[i]), activeNode, None, FALSE, {})
    /\ UNCHANGED <<mounted, nodes, links, chamberVars, timelineVars, warnings, orbVars, ambientVars, effectDone, frames, cubeRotation, derived, consoleVars, apiVars>>

\* The pointer's ray comes to intersect the i-th rendered node: <Node> gives
\* its mesh an onClick only, so no handler is called
PointerOverNode(i) ==
    /\ Live("mesh")
    /\ i \in 1..Len(nodes)
    /\ last' = Stamp("mesh", "enter", Some(nodes[i]), activeNode, None, FALSE, {})
    /\ UNCHANGED <<mounted, meshVars, chamberVars, timelineVars, warnings, orbVars, ambientVars, effectDone, frames, cubeRotation, derived, consoleVars, apiVars>>

\* The overlay's Close button: onClick={() => setActiveNode(null)}
CloseMesh ==
    /\ Live("mesh")
    /\ Truthy(MeshOverlay(activeNode))
    /\ activeNode' = None
    /\ last' = Stamp("mesh", "close", None, activeNode, None, FALSE, {})
    /\ UNCHANGED <<mounted, nodes, links, chamberVars, timelineVars, warnings, orbVars, ambientVars, effectDone, frames, cubeRotation, derived, consoleVars, apiVars>>

\* ---------------------------------------------------------- PluginChamber
pluginsStub ==
    << [id |-> 1, name |-> "WebSearch", status |-> "active", permissions |-> "read", lastUsed |-> "now"],
       [id |-> 2, name |-> "Wolfram", status |-> "idle", permissions |-> "compute", lastUsed |-> "1h ago"],
       [id |-> 3, name |-> "NewsFeed", status |-> "active", permissions |-> "read", lastUsed |-> "5m ago"] >>

\* The plugin objects the generated snapshots carry: the stub's first two, and
\* a second object under id 1.
PluginUniverse ==
    {pluginsStub[i] : i \in 1..2}
        \cup {[id |-> 1, name |-> "WebSearch2", status |-> "idle", permissions |-> "write", lastUsed |-> "2d ago"]}

PluginInputs == BoundedSeq(PluginUniverse, MaxPlugins) \cup {pluginsStub}

\* hovered={hovered === plugin.id}
CubeHovered(hov, plugin) == hov = Some(plugin.id)

\* <PluginCube .../> : scale={hovered ? [1.4, 1.4, 1.4] : [1, 1, 1]}, in
\* tenths; the details <Html> is a child only while hovered
CubeElement(plugin, i, isHovered) ==
    [ key |-> plugin.id,
      index |-> i - 1,
      plugin |-> plugin,
      hovered |-> isHovered,
      scale |-> IF isHovered THEN <<14, 14, 14>> ELSE <<10, 10, 10>>,
      details |-> IF isHovered THEN Some(plugin.name) ELSE None ]

\* {plugins.map((plugin, i) => <PluginCube key={plugin.id} ... />)}
RenderCubes(ps, hov) ==
    [i \in 1..Len(ps) |-> CubeElement(ps[i], i, CubeHovered(hov, ps[i]))]

\* {selected && (<div> ... </div>)}
ChamberOverlay(sel) ==
    IF Truthy(sel)
    THEN Some([title |-> sel[1].name, status |-> sel[1].status,
               permissions |-> sel[1].permissions, lastUsed |-> sel[1].lastUsed])
    ELSE None

\* onPointerOver={() => setHovered(plugin.id)} of the i-th rendered cube
onPointerOver(ps, i) == Some(ps[i].id)

\* onPointerOut={() => setHovered(null)} of the i-th rendered cube
onPointerOut(ps, i) == None

\* Variant: the handler closes over the last plugin of the array
onClickCubeLast(ps, i) == Some(ps[Len(ps)])

\* onClick={() => setSelected(plugin)} of the i-th rendered cube
onClickCube(ps, i) == Some(ps[i])

\* The cubes still under the pointer after a re-render from ps0 to ps: a cube
\* whose key stays at its index is the same mesh; any other is a new mesh,
\* which gets its pointerover when the pointer next moves
StillUnderPointer(on, ps0, ps) ==
    {i \in on : i <= Len(ps) /\ ps[i].id = ps0[i].id}

\* The rotations of the cubes after a re-render from ps0 to ps: the children
\* are keyed by plugin.id, so a cube whose key belonged to one cube before
\* keeps its mesh, and every other cube is a new mesh
MeshesAfterBind(ps0, rot0, ps) ==
    [i \in 1..Len(ps) |->
        LET was == {j \in 1..Len(ps0) : ps0[j].id = ps[i].id}
        IN  IF Cardinality(was) = 1 THEN rot0[CHOOSE j \in was : TRUE] ELSE <<0, 0>>]

\* Variant: the cube turns whether hovered or not
CubeRotationDeltaAlways(isHovered) == <<5, 10>>

\* if (mesh.current && !hovered) { rotation.y += 0.01; rotation.x += 0.005 }
CubeRotationDelta(isHovered) == IF isHovered THEN <<0, 0>> ELSE <<5, 10>>

\* One frame of the chamber's canvas: the useFrame callback of every cube,
\* then the render
CubeFrame ==
    /\ Live("plugins")
    /\ plugins # <<>>
    /\ frames < MaxFrames
    /\ cubeRotation' =
          [i \in 1..Len(plugins) |->
              LET d == CubeRotationDelta(RenderCubes(plugins, hovered)[i].hovered)
              IN  <<cubeRotation[i][1] + d[1], cubeRotation[i][2] + d[2]>>]
    /\ frames' = frames + 1
    /\ derived' = derived \cup
          {Observation(plugins[i], RenderCubes(plugins, hovered)[i].hovered,
                       RenderCubes(plugins, hovered)[i].scale,
                       CubeRotationDelta(RenderCubes(plugins, hovered)[i].hovered)) :
              i \in 1..Len(plugins)}
    /\ last' = Stamp("plugins", "frame", None, selected, hovered, FALSE, {})
    /\ UNCHANGED <<mounted, chamberVars, meshVars, timelineVars, warnings, orbVars,
                   ambientVars, effectDone, consoleVars, apiVars>>

\* The parent re-renders <PluginChamber plugins={ps} />
BindPlugins(ps) ==
    /\ Live("plugins")
    /\ plugins' = ps
    /\ last' = Stamp("plugins", "bind", None, selected, hovered, ps = plugins, {})
    /\ pointerOn' = StillUnderPointer(pointerOn, plugins, ps)
    /\ cubeRotation' = MeshesAfterBind(plugins, cubeRotation, ps)
    /\ UNCHANGED <<mounted, hovered, selected, meshVars, timelineVars, warnings, orbVars, ambientVars, effectDone, frames, derived, consoleVars, apiVars>>

\* pointerover dispatched to the i-th rendered cube: the pointer's ray has
\* come to intersect it (it may intersect several cubes at once)
PointerOver(i) ==
    /\ Live("plugins")
    /\ i \in 1..Len(plugins)
    /\ i \notin pointerOn
    /\ pointerOn' = pointerOn \cup {i}
    /\ hovered' = onPointerOver(plugins, i)
    /\ last' = Stamp("plugins", "enter", Some(plugins[i]), selected, hovered, FALSE, {})
    /\ UNCHANGED <<mounted, plugins, selected, meshVars, timelineVars, warnings, orbVars, ambientVars, effectDone, frames, cubeRotation, derived, consoleVars, apiVars>>

\* pointerout dispatched to the i-th rendered cube: the ray has left it
PointerOut(i) ==
    /\ Live("plugins")
    /\ i \in pointerOn
    /\ pointerOn' = pointerOn \ {i}
    /\ hovered' = onPointerOut(plugins, i)
    /\ last' = Stamp("plugins", "leave", Some(plugins[i]), selected, hovered, FALSE, {})
    /\ UNCHANGED <<mounted, plugins, selected, meshVars, timelineVars, warnings, orbVars, ambientVars, effectDone, frames, cubeRotation, derived, consoleVars, apiVars>>

\* A click dispatched to the i-th rendered cube
ClickCube(i) ==
    /\ Live("plugins")
    /\ i \in 1..Len(plugins)
    /\ selected' = onClickCube(plugins, i)
    /\ last' = Stamp("plugins", "click", Some(plugins[i]), selected, hovered, FALSE, {})
    /\ UNCHANGED <<mounted, plugins, hovered, pointerOn, meshVars, timelineVars, warnings, orbVars, ambientVars, effectDone, frames, cubeRotation, derived, consoleVars, apiVars>>

\* Variant: the Close button resets the whole interaction state
CloseChamberResets ==
    /\ Live("plugins")
    /\ Truthy(ChamberOverlay(selected))
    /\ selected' = None
    /\ hovered' = None
    /\ last' = Stamp("plugins", "close", None, selected, hovered, FALSE, {})
    /\ UNCHANGED <<mounted, plugins, pointerOn, meshVars, timelineVars, warnings, orbVars, ambientVars, effectDone, frames, cubeRotation, derived, consoleVars, apiVars>>

\* The overlay's Close button: onClick={() => setSelected(null)}
CloseChamber ==
    /\ Live("plugins")
    /\ Truthy(ChamberOverlay(selected))
    /\ selected' = None
    /\ last' = Stamp("plugins", "close", None, selected, hovered, FALSE, {})
    /\ UNCHANGED <<mounted, plugins, hovered, pointerOn, meshVars, timelineVars, warnings, orbVars, ambientVars, effectDone, frames, cubeRotation, derived, consoleVars, apiVars>>

\* ----------------------------------------------------------- MindTimeline
timelineStub ==
    << [time |-> "08:00", type |-> "task", label |-> "Start Session", status |-> "success"],
       [time |-> "09:00", type |-> "reflection", label |-> "Reflected on task", status |-> "success"],
       [time |-> "10:00", type |-> "task", label |-> "Failed Task", status |-> "failure"],
       [time |-> "11:00", type |-> "projection", label |-> "Future Plan", status |-> "pending"] >>

\* The event objects the generated snapshots carry: the stub's first two, and
\* a second object at time 08:00.
EventUniverse ==
    {timelineStub[i] : i \in 1..2}
        \cup {[time |-> "08:00", type |-> "reflection", label |-> "Restart", status |-> "pending"]}

EventInputs == BoundedSeq(EventUniverse, MaxEvents) \cup {timelineStub}

\* const width = 600: the range [60, width - 60]
RangeStart == 60
RangeStop == 540

\* The domain of d3.scalePoint().domain(events.map(e => e.time)): an ordinal
\* domain keeps the first occurrence of each value, in order.
ScaleDomain(evs) ==
    LET firsts == {i \in 1..Len(evs) : \A j \in 1..(i - 1) : evs[j].time # evs[i].time}
        Nth[k \in 0..Len(evs)] ==
            IF k = 0 THEN 0 ELSE Min({i \in firsts : i > Nth[k - 1]})
    IN  [k \in 1..Cardinality(firsts) |-> evs[Nth[k]].time]

\* x(t) of the point scale (padding 0, align 0.5) over `domain`
ScalePointX(domain, t) ==
    LET n == Len(domain)
        k == CHOOSE i \in 1..n : domain[i] = t
        step == (RangeStop - RangeStart) \div (IF n - 1 > 1 THEN n - 1 ELSE 1)
        start == RangeStart + ((RangeStop - RangeStart) - step * (n - 1)) \div 2
    IN  start + step * (k - 1)

\* .attr('fill', d => ...)
StatusFill(status) ==
    IF status = "success" THEN "#00ff6a"
    ELSE IF status = "failure" THEN "#ff007c" ELSE "#ffb300"

Mark(tag, x, fill, text, datum) ==
    [tag |-> tag, x |-> x, fill |-> fill, text |-> text, datum |-> datum]

\* Variant: the effect does not remove the previous children
ClearSvgKeep(children) == children

\* svg.selectAll('*').remove()
ClearSvg(children) == <<>>

\* svg.selectAll(tag).data(evs).enter().append(tag): the data join is by
\* index, so a datum enters when no existing `tag` child has its index
AppendEntered(children, tag, evs) ==
    LET have == Cardinality({k \in 1..Len(children) : children[k].tag = tag})
        domain == ScaleDomain(evs)
        made == [i \in 1..Len(evs) |->
                    Mark(tag, ScalePointX(domain, evs[i].time),
                         IF tag = "circle" THEN StatusFill(evs[i].status) ELSE "#e0e7ef",
                         IF tag = "text" THEN evs[i].label ELSE "",
                         Some(evs[i]))]
    IN  children \o SubSeq(made, have + 1, Len(evs))

\* The body of useEffect(() => { ... }, [events]) on the svg's children
DrawTimeline(children, evs) ==
    LET cleared == ClearSvg(children)
        withAxis == Append(cleared, Mark("line", RangeStart, "#6e00ff", "", None))
        withCircles == AppendEntered(withAxis, "circle", evs)
    IN  AppendEntered(withCircles, "text", evs)

\* Variant: {selected !== undefined && (...)}, which null passes
TimelineOverlayAlways(sel) ==
    Some([title |-> IF Truthy(sel) THEN sel[1].label ELSE "",
          type |-> IF Truthy(sel) THEN sel[1].type ELSE "",
          status |-> IF Truthy(sel) THEN sel[1].status ELSE ""])

\* {selected && (<div> ... </div>)}
TimelineOverlay(sel) ==
    IF Truthy(sel)
    THEN Some([title |-> sel[1].label, type |-> sel[1].type, status |-> sel[1].status])
    ELSE None

\* .on('click', (e, d) => setSelected(d)) of the svg child k
onClickCircle(children, k) == children[k].datum

\* The parent re-renders <MindTimeline events={evs} />; the effect runs
\* again unless evs is the very array of the previous render.
BindTimeline(evs, sameRef) ==
    /\ Live("timeline")
    /\ sameRef => evs = events
    /\ events' = evs
    /\ svg' = IF sameRef THEN svg ELSE DrawTimeline(svg, evs)
    /\ last' = Stamp("timeline", "bind", None, tlSelected, None, evs = events, {})
    /\ UNCHANGED <<mounted, tlSelected, meshVars, chamberVars, warnings, orbVars, ambientVars, effectDone, frames, cubeRotation, derived, consoleVars, apiVars>>

\* A click dispatched to the svg child k, a circle
ClickCircle(k) ==
    /\ Live("timeline")
    /\ k \in 1..Len(svg)
    /\ svg[k].tag = "circle"
    /\ tlSelected' = onClickCircle(svg, k)
    /\ last' = Stamp("timeline", "click", svg[k].datum, tlSelected, None, FALSE, {})
    /\ UNCHANGED <<mounted, events, svg, meshVars, chamberVars, warnings, orbVars, ambientVars, effectDone, frames, cubeRotation, derived, consoleVars, apiVars>>

\* The overlay's Close button: onClick={() => setSelected(null)}
CloseTimeline ==
    /\ Live("timeline")
    /\ Truthy(TimelineOverlay(tlSelected))
    /\ tlSelected' = None
    /\ last' = Stamp("timeline", "close", None, tlSelected, None, FALSE, {})
    /\ UNCHANGED <<mounted, events, svg, meshVars, chamberVars, warnings, orbVars, ambientVars, effectDone, frames, cubeRotation, derived, consoleVars, apiVars>>

\* -------------------------------------------------------------- PlasmaOrb
\* PlasmaOrb's default props.emotion
orbDefault == [stress |-> 2, focus |-> 8, curiosity |-> 5]

\* The emotion Home passes, and the one ui.test.js passes
homeEmotion == [stress |-> 3, focus |-> 7, curiosity |-> 5]
testEmotion == [stress |-> 8, focus |-> 2, curiosity |-> 5]

\* The emotion objects a parent may pass: the three above, and objects with a
\* scalar below 0 or above 1
EmotionInputs ==
    {orbDefault, homeEmotion, testEmotion,
     [stress |-> -5, focus |-> 8, curiosity |-> 5],
     [stress |-> 17, focus |-> 8, curiosity |-> 5],
     [stress |-> 2, focus |-> 17, curiosity |-> -5]}

\* emotion={null}: the default of the parameter applies to undefined only
nullEmotion == [null |-> TRUE]

\* Every emotion prop a parent may pass
EmotionProps == EmotionInputs \cup {nullEmotion}

\* Whether emotion.stress throws a TypeError
DerivationThrows(e) == e = nullEmotion

\* Variant: the callback reads the default instead of the prop
FrameEmotionDefault(e) == orbDefault

\* The emotion the useFrame callback reads: the prop of the latest render
FrameEmotion(e) == e

\* Variant: the orb turns more slowly the higher the stress
OrbRotationDeltaInverse(e) == 3 + (10 - e.stress)

\* 0.003 + emotion.stress * 0.01
OrbRotationDelta(e) == 3 + e.stress

\* Variant: mesh.current.scale.x += ..., which builds on the scale the mesh
\* already has
OrbScaleAccumulating(e) ==
    <<orbScale[1] + 20 * e.stress, 1000 + 10 * e.focus, 1000 + 15 * e.curiosity>>

\* scale.set(1 + stress * 0.2, 1 + focus * 0.1, 1 + curiosity * 0.15)
OrbScale(e) ==
    <<1000 + 20 * e.stress, 1000 + 10 * e.focus, 1000 + 15 * e.curiosity>>

\* The parent re-renders <EmotionPlasma emotion={e} />
BindOrb(e) ==
    /\ Live("orb")
    /\ emotion' = e
    /\ last' = Stamp("orb", "bind", None, None, None, e = emotion, {})
    /\ UNCHANGED <<mounted, orbRotation, orbScale, meshVars, chamberVars, timelineVars,
                   ambientVars, effectDone, frames, warnings, cubeRotation, derived, consoleVars, apiVars>>

\* One frame of the canvas loop: the useFrame callback, then the render.
\* With a null emotion the callback throws at its first statement, before
\* it has written to the mesh; nothing in the component catches the error,
\* which leaves the callback and ends the frame before the render.
OrbFrame ==
    /\ Live("orb")
    /\ frames < MaxFrames
    /\ frames' = frames + 1
    /\ IF DerivationThrows(FrameEmotion(emotion))
       THEN /\ UNCHANGED <<orbRotation, orbScale, derived>>
            /\ last' = Stamp("orb", "throw", None, None, None, FALSE, {})
       ELSE /\ orbRotation' = orbRotation + OrbRotationDelta(FrameEmotion(emotion))
            /\ orbScale' = OrbScale(FrameEmotion(emotion))
            /\ derived' = derived \cup
                  {Observation(emotion, FALSE, OrbScale(FrameEmotion(emotion)),
                               <<0, OrbRotationDelta(FrameEmotion(emotion))>>)}
            /\ last' = Stamp("orb", "frame", None, None, None, FALSE, {})
    /\ UNCHANGED <<mounted, emotion, meshVars, chamberVars, timelineVars,
                   ambientVars, effectDone, warnings, cubeRotation, consoleVars, apiVars>>

\* ----------------------------------------------------------- AmbientLayer
\* let columns = Math.floor(width / 20)
Columns == InnerWidth \div 20

\* One column's step in draw(): a random reset, the increment, the wrap
DropStep(d, reset) ==
    LET d1 == IF reset THEN 0 ELSE d
        d2 == d1 + 1
    IN  IF d2 * 20 > InnerHeight THEN 0 ELSE d2

\* The id requestAnimationFrame returns after the id `id`
NextRafId(id) == IF Truthy(id) THEN id[1] + 1 ELSE 1

\* Variant: the cleanup cancels the id of the first request
CancelFirst(pending, id) == pending \ {1}

\* cancelAnimationFrame(animationId)
Cancel(pending, id) == pending \ {id[k] : k \in 1..Len(id)}

\* Variant: draw() requests two frames per call
DrawTwice(fired, resets) ==
    /\ drops' = [i \in 1..Columns |-> DropStep(drops[i], resets[i])]
    /\ animationId' = Some(NextRafId(animationId) + 1)
    /\ rafPending' = (rafPending \ fired) \cup {NextRafId(animationId), NextRafId(animationId) + 1}
    /\ frames' = frames + 1

\* draw(): paints, moves the drops, and requests the next frame. `fired` is
\* the request this call answers, none for the direct call of the effect.
Draw(fired, resets) ==
    /\ drops' = [i \in 1..Columns |-> DropStep(drops[i], resets[i])]
    /\ animationId' = Some(NextRafId(animationId))
    /\ rafPending' = (rafPending \ fired) \cup {NextRafId(animationId)}
    /\ frames' = frames + 1

\* The effects of the mount commit, in tree order. AmbientLayer's calls
\* draw(), whose first statement uses ctx: with no context it throws, no
\* frame is requested and no cleanup is registered, and React, having no
\* error boundary above, unmounts the whole root. MindTimeline's draws the svg.
FlushEffects ==
    /\ ~effectDone
    /\ mounted \in {"ambient", "home"}
    /\ effectDone' = TRUE
    /\ IF ctx
       THEN /\ \E resets \in [1..Columns -> BOOLEAN] : Draw({}, resets)
            /\ svg' = IF mounted = "home" THEN DrawTimeline(svg, events) ELSE svg
            /\ UNCHANGED mounted
       ELSE /\ mounted' = "none"
            /\ UNCHANGED <<drops, animationId, rafPending, frames, svg>>
    /\ last' = Stamp(mounted, "effect", None, None, None, FALSE, {})
    /\ UNCHANGED <<ctx, meshVars, chamberVars, events, tlSelected, orbVars, warnings, cubeRotation, derived, consoleVars, apiVars>>

\* The browser runs a requested frame callback: draw() again. The browser
\* does not know about React: only a cancel removes a request.
RafFire(id) ==
    /\ id \in rafPending
    /\ frames < MaxFrames
    /\ \E resets \in [1..Columns -> BOOLEAN] : Draw({id}, resets)
    /\ last' = Stamp("ambient", "draw", None, None, None, FALSE, {})
    /\ UNCHANGED <<mounted, ctx, effectDone, meshVars, chamberVars, timelineVars,
                   orbVars, warnings, cubeRotation, derived, consoleVars, apiVars>>

\* The root is unmounted: the cleanups of the effects that completed run
Unmount ==
    /\ mounted # "none"
    /\ effectDone
    /\ mounted' = "none"
    /\ rafPending' = IF mounted \in {"ambient", "home"}
                     THEN Cancel(rafPending, animationId) ELSE rafPending
    /\ last' = Stamp(mounted, "unmount", None, None, None, FALSE, {})
    /\ UNCHANGED <<ctx, animationId, drops, effectDone, frames, meshVars, chamberVars,
                   timelineVars, orbVars, warnings, cubeRotation, derived, consoleVars, apiVars>>

\* -------------------------------------------------------- MorpheusConsole
\* TABS.map(t => t.key)
TabKeys == {"cot", "reflection", "intrusion", "ethics"}

\* The texts typed into the input
CommandTexts == {"ls", "run"}

\* What a render closes over: handleCommand reads these, not the cells
Rendered(input, history) == [input |-> input, history |-> history]

\* setHistory([...history, input]) with the history and input of the render
\* that created the handler; `current` is the cell's value at the call
NextHistory(closure, current) == Append(closure.history, closure.input)

\* onChange={e => setInput(e.target.value)}; the component re-renders before
\* the next event is handled
TypeInput(text) ==
    /\ Live("console")
    /\ text # conInput
    /\ conInput' = text
    /\ conRender' = Rendered(text, conHistory)
    /\ last' = Stamp("console", "type", Some(text), conHistory, None, FALSE, {})
    /\ UNCHANGED <<mounted, conTab, conHistory, meshVars, chamberVars, timelineVars, orbVars,
                   ambientVars, cubeRotation, derived, apiVars, effectDone, frames, warnings>>

\* onClick={() => setTab(t.key)}, followed by the re-render
SetTab(key) ==
    /\ Live("console")
    /\ conTab' = key
    /\ conRender' = Rendered(conInput, conHistory)
    /\ last' = Stamp("console", "tab", Some(key), conHistory, None, FALSE, {})
    /\ UNCHANGED <<mounted, conInput, conHistory, meshVars, chamberVars, timelineVars, orbVars,
                   ambientVars, cubeRotation, derived, apiVars, effectDone, frames, warnings>>

\* onSubmit={handleCommand}. `flush` is whether the component re-renders
\* before the next event: it does not when the submit is handled inside a
\* batch of updates that is still open.
Submit(flush) ==
    /\ Live("console")
    /\ Len(conHistory) < MaxHistory
    /\ conHistory' = NextHistory(conRender, conHistory)
    /\ conInput' = ""
    /\ conRender' = IF flush THEN Rendered(conInput', conHistory') ELSE conRender
    /\ last' = Stamp("console", "submit", Some(conInput), conHistory, None, flush, {})
    /\ UNCHANGED <<mounted, conTab, meshVars, chamberVars, timelineVars, orbVars,
                   ambientVars, cubeRotation, derived, apiVars, effectDone, frames, warnings>>

\* The batch closes and the component re-renders with the cells' values
RenderConsole ==
    /\ Live("console")
    /\ conRender # Rendered(conInput, conHistory)
    /\ conRender' = Rendered(conInput, conHistory)
    /\ last' = Stamp("console", "render", None, conHistory, None, FALSE, {})
    /\ UNCHANGED <<mounted, conTab, conInput, conHistory, meshVars, chamberVars, timelineVars,
                   orbVars, ambientVars, cubeRotation, derived, apiVars, effectDone, frames,
                   warnings>>

\* ------------------------------------------------------ stream API handler
\* The request methods sent to the route
Methods == {"GET", "POST", "PUT", "DELETE"}

\* The response object the server hands to the handler
FreshResponse == [status |-> 200, body |-> None, sends |-> 0]

\* res.status(code)
ResStatus(res, code) == [res EXCEPT !.status = code]

\* res.json(body): writes the body and ends the response
ResJson(res, body) == [res EXCEPT !.body = Some(body), !.sends = @ + 1]

\* res.end(): ends the response with no body
ResEnd(res) == [res EXCEPT !.sends = @ + 1]

NotImplementedMessage == [message |-> "WebSocket bridge not implemented yet."]

\* Variant: every method is answered like GET
handlerAnyMethod(req, res) == ResJson(ResStatus(res, 200), NotImplementedMessage)

\* handler(req, res)
handler(req, res) ==
    IF req.method = "GET"
    THEN ResJson(ResStatus(res, 200), NotImplementedMessage)
    ELSE ResEnd(ResStatus(res, 405))

\* The server receives a request and calls the handler with a new response
Request(method) ==
    /\ Live("api")
    /\ Len(responses) < MaxRequests
    /\ responses' = Append(responses, [method |-> method,
                                       res |-> handler([method |-> method], FreshResponse)])
    /\ last' = Stamp("api", "request", Some(method), None, None, FALSE, {})
    /\ UNCHANGED <<mounted, meshVars, chamberVars, timelineVars, orbVars, ambientVars,
                   cubeRotation, derived, consoleVars, effectDone, frames, warnings>>

\* --------------------------------------------------------- pointer misses
\* Variant: the click listener is on every child that carries a datum, the
\* labels included
AfterClickOnChildAny(children, k, sel) ==
    IF Truthy(children[k].datum) THEN children[k].datum ELSE sel

\* The selection after a click dispatched to the svg child k: only the
\* circles were given .on('click', ...)
AfterClickOnChild(children, k, sel) ==
    IF children[k].tag = "circle" THEN onClickCircle(children, k) ELSE sel

\* A click on the mesh canvas whose ray meets no node: the Canvas has no
\* onPointerMissed and no node handler is called
MissMesh ==
    /\ Live("mesh")
    /\ last' = Stamp("mesh", "miss", None, activeNode, None, FALSE, {})
    /\ UNCHANGED <<mounted, meshVars, chamberVars, timelineVars, warnings, orbVars,
                   ambientVars, effectDone, frames, cubeRotation, derived, consoleVars, apiVars>>

\* A click or pointer move on the chamber canvas whose ray meets no cube
MissChamber ==
    /\ Live("plugins")
    /\ last' = Stamp("plugins", "miss", None, selected, hovered, FALSE, {})
    /\ UNCHANGED <<mounted, meshVars, chamberVars, timelineVars, warnings, orbVars,
                   ambientVars, effectDone, frames, cubeRotation, derived, consoleVars, apiVars>>

\* A click on the svg off every circle: on child k, the axis line or a
\* label, or on the background (k = 0)
MissTimeline(k) ==
    /\ Live("timeline")
    /\ k \in 0..Len(svg)
    /\ k # 0 => svg[k].tag # "circle"
    /\ tlSelected' = IF k = 0 THEN tlSelected ELSE AfterClickOnChild(svg, k, tlSelected)
    /\ last' = Stamp("timeline", "miss", None, tlSelected, None, FALSE, {})
    /\ UNCHANGED <<mounted, events, svg, meshVars, chamberVars, warnings, orbVars,
                   ambientVars, effectDone, frames, cubeRotation, derived, consoleVars, apiVars>>

\* ------------------------------------------------------------ the machine
MeshIdle == nodes = <<>> /\ links = <<>> /\ activeNode = None
ChamberIdle == plugins = <<>> /\ hovered = None /\ selected = None /\ pointerOn = {}
TimelineIdle == events = <<>> /\ tlSelected = None /\ svg = <<>>
OrbFresh == orbRotation = 0 /\ orbScale = <<1000, 1000, 1000>>
OrbIdle == emotion = orbDefault /\ OrbFresh
AmbientFresh ==
    /\ rafPending = {} /\ animationId = None
    /\ drops = [i \in 1..Columns |-> 1]
AmbientIdle == ctx = TRUE /\ AmbientFresh
CubesFresh == cubeRotation = [i \in 1..Len(plugins) |-> <<0, 0>>]
ConsoleFresh ==
    /\ conTab = "cot" /\ conInput = "" /\ conHistory = <<>>
    /\ conRender = [input |-> "", history |-> <<>>]
ApiIdle == responses = <<>>

InitMesh ==
    /\ mounted = "mesh"
    /\ nodes \in NodeInputs
    /\ links \in LinkInputs
    /\ activeNode = None
    /\ ChamberIdle /\ TimelineIdle /\ OrbIdle /\ AmbientIdle /\ effectDone = TRUE
    /\ CubesFresh /\ ConsoleFresh /\ ApiIdle

InitChamber ==
    /\ mounted = "plugins"
    /\ plugins \in PluginInputs
    /\ hovered = None /\ selected = None /\ pointerOn = {}
    /\ MeshIdle /\ TimelineIdle /\ OrbIdle /\ AmbientIdle /\ effectDone = TRUE
    /\ CubesFresh /\ ConsoleFresh /\ ApiIdle

InitTimeline ==
    /\ mounted = "timeline"
    /\ events \in EventInputs
    /\ tlSelected = None
    /\ svg = DrawTimeline(<<>>, events)
    /\ MeshIdle /\ ChamberIdle /\ OrbIdle /\ AmbientIdle /\ effectDone = TRUE
    /\ CubesFresh /\ ConsoleFresh /\ ApiIdle

InitOrb ==
    /\ mounted = "orb"
    /\ emotion \in EmotionProps
    /\ OrbFresh
    /\ MeshIdle /\ ChamberIdle /\ TimelineIdle /\ AmbientIdle /\ effectDone = TRUE
    /\ CubesFresh /\ ConsoleFresh /\ ApiIdle

\* AmbientLayer committed, its effect not yet run
InitAmbient ==
    /\ mounted = "ambient"
    /\ ctx \in BOOLEAN
    /\ AmbientFresh
    /\ MeshIdle /\ ChamberIdle /\ TimelineIdle /\ OrbIdle /\ effectDone = FALSE
    /\ CubesFresh /\ ConsoleFresh /\ ApiIdle

InitConsole ==
    /\ mounted = "console"
    /\ ConsoleFresh
    /\ MeshIdle /\ ChamberIdle /\ TimelineIdle /\ OrbIdle /\ AmbientIdle /\ effectDone = TRUE
    /\ CubesFresh /\ ApiIdle

\* The route is served: no component is rendered
InitApi ==
    /\ mounted = "api"
    /\ ApiIdle
    /\ MeshIdle /\ ChamberIdle /\ TimelineIdle /\ OrbIdle /\ AmbientIdle /\ effectDone = TRUE
    /\ CubesFresh /\ ConsoleFresh

\* render(<Component {...props} />) into an empty container, or the route
Init ==
    /\ InitMesh \/ InitChamber \/ InitTimeline \/ InitOrb \/ InitAmbient \/ InitConsole \/ InitApi
    /\ frames = 0
    /\ derived = {}
    /\ warnings = <<>>
    /\ last = Stamp(mounted, "mount", None, None, None, FALSE, {})

Next ==
    \/ \E ns \in NodeInputs, ls \in LinkInputs : BindMesh(ns, ls)
    \/ \E i \in 1..Len(nodes) : ClickNode(i)
    \/ CloseMesh
    \/ \E i \in 1..Len(nodes) : PointerOverNode(i)
    \/ \E ps \in PluginInputs : BindPlugins(ps)
    \/ \E i \in 1..Len(plugins) : PointerOver(i)
    \/ \E i \in 1..Len(plugins) : PointerOut(i)
    \/ \E i \in 1..Len(plugins) : ClickCube(i)
    \/ CloseChamber
    \/ \E evs \in EventInputs, sameRef \in BOOLEAN : BindTimeline(evs, sameRef)
    \/ \E k \in 1..Len(svg) : ClickCircle(k)
    \/ CloseTimeline
    \/ MissMesh
    \/ MissChamber
    \/ \E k \in 0..Len(svg) : MissTimeline(k)
    \/ \E e \in EmotionProps : BindOrb(e)
    \/ OrbFrame
    \/ \E text \in CommandTexts \cup {""} : TypeInput(text)
    \/ \E key \in TabKeys : SetTab(key)
    \/ \E flush \in BOOLEAN : Submit(flush)
    \/ RenderConsole
    \/ \E method \in Methods : Request(method)
    \/ FlushEffects
    \/ \E id \in rafPending : RafFire(id)
    \/ Unmount

Spec == Init /\ [][Next]_vars

\* Home committed: every panel with its defaults, the orb with Home's
\* emotion, the mount effects not yet run
InitHome ==
    /\ mounted = "home"
    /\ nodes = nodesStub /\ links = linksStub /\ activeNode = None
    /\ plugins = pluginsStub /\ hovered = None /\ selected = None /\ pointerOn = {}
    /\ events = timelineStub /\ tlSelected = None /\ svg = <<>>
    /\ emotion = homeEmotion /\ OrbFresh
    /\ ctx \in BOOLEAN /\ AmbientFresh
    /\ CubesFresh /\ ConsoleFresh /\ ApiIdle
    /\ effectDone = FALSE
    /\ frames = 0
    /\ derived = {}
    /\ warnings = <<>>
    /\ last = Stamp(mounted, "mount", None, None, None, FALSE, {})

\* The Home page under pointer events. Home has no state and passes
\* constants, so no panel is ever re-rendered with new props. The frame loops
\* of the orb and of the ambient layer, which write only their own locals,
\* are exercised by Spec.
NextHome ==
    \/ FlushEffects
    \/ \E i \in 1..Len(nodes) : ClickNode(i)
    \/ CloseMesh
    \/ \E i \in 1..Len(nodes) : PointerOverNode(i)
    \/ MissMesh
    \/ \E i \in 1..Len(plugins) : PointerOver(i)
    \/ \E i \in 1..Len(plugins) : PointerOut(i)
    \/ \E i \in 1..Len(plugins) : ClickCube(i)
    \/ CloseChamber
    \/ MissChamber
    \/ \E k \in 1..Len(svg) : ClickCircle(k)
    \/ CloseTimeline
    \/ \E k \in 0..Len(svg) : MissTimeline(k)
    \/ Unmount

SpecHome == InitHome /\ [][NextHome]_vars

\* The two animated canvases, each rendered alone with its frame loop:
\* PluginChamber under pointer events, EmotionPlasma under new emotions
InitFrames ==
    /\ InitChamber \/ InitOrb
    /\ frames = 0
    /\ derived = {}
    /\ warnings = <<>>
    /\ last = Stamp(mounted, "mount", None, None, None, FALSE, {})

NextFrames ==
    \/ \E i \in 1..Len(plugins) : PointerOver(i)
    \/ \E i \in 1..Len(plugins) : PointerOut(i)
    \/ \E i \in 1..Len(plugins) : ClickCube(i)
    \/ CloseChamber
    \/ MissChamber
    \/ CubeFrame
    \/ \E e \in EmotionProps : BindOrb(e)
    \/ OrbFrame

SpecFrames == InitFrames /\ [][NextFrames]_vars

\* ------------------------------------------------ what the panel reports
\* The selection cell of the rendered component
Selection ==
    CASE mounted = "mesh" -> activeNode
      [] mounted = "plugins" -> selected
      [] mounted = "timeline" -> tlSelected
      [] OTHER -> None

\* The detail overlay the rendered component returns
Overlay ==
    CASE mounted = "mesh" -> MeshOverlay(activeNode)
      [] mounted = "plugins" -> ChamberOverlay(selected)
      [] mounted = "timeline" -> TimelineOverlay(tlSelected)
      [] OTHER -> None

\* What identifies an entity of the rendered component: its id, and for a
\* timeline event (which has none) the datum itself
KeyOf(e) == IF mounted = "timeline" THEN e ELSE e.id

\* The keys presented as selected: the selection cell's, and for the mesh
\* the keys of the nodes rendered active
SelectedIds ==
    {KeyOf(Selection[k]) : k \in 1..Len(Selection)}
        \cup (IF mounted = "mesh"
              THEN {RenderNodes(nodes, activeNode)[i].key :
                       i \in {j \in 1..Len(nodes) : RenderNodes(nodes, activeNode)[j].active}}
              ELSE {})

\* The keys of the entities of the current snapshot
BoundIds ==
    CASE mounted = "mesh" -> {nodes[i].id : i \in 1..Len(nodes)}
      [] mounted = "plugins" -> {plugins[i].id : i \in 1..Len(plugins)}
      [] mounted = "timeline" -> {events[i] : i \in 1..Len(events)}
      [] OTHER -> {}

\* The number of entity marks the rendered component shows
RenderedCount ==
    CASE mounted = "mesh" -> Len(RenderNodes(nodes, activeNode))
      [] mounted = "plugins" -> Len(RenderCubes(plugins, hovered))
      [] mounted = "timeline" -> Cardinality({k \in 1..Len(svg) : svg[k].tag = "circle"})
      [] OTHER -> 0

\* The cubes rendered as hovered
HoveredCubes ==
    {i \in 1..Len(plugins) : RenderCubes(plugins, hovered)[i].hovered}

\* Everything the rendered component holds and shows
PanelState ==
    << nodes, links, activeNode, RenderNodes(nodes, activeNode), RenderLinks(nodes, links),
       plugins, hovered, selected, RenderCubes(plugins, hovered),
       events, tlSelected, svg, Overlay >>

\* ----------------------------------------------------------------- claims

\* C1: in every reachable state at most one selected id is active, and a
\* click on B while A is selected leaves exactly B selected after that one
\* step (A is no longer presented as selected, and something is selected).
C1_SingleSelection ==
    /\ Cardinality(SelectedIds) <= 1
    /\ (last.ev = "click" /\ Truthy(last.sel0))
          => SelectedIds = {KeyOf(last.target[1])}

C1_Witness ==
    /\ mounted = "mesh"
    /\ last.ev = "click"
    /\ Truthy(last.sel0)
    /\ last.sel0[1].id # last.target[1].id
    /\ Len(nodes) > 1

\* C2: after a click on an entity, whatever was hovered or selected before
\* (nothing, the same entity, another entity), the selection is that entity;
\* the step never leaves the selection empty.
C2_ClickSelects ==
    last.ev = "click" => (Truthy(Selection) /\ Selection = last.target)

C2_Witness ==
    /\ mounted = "plugins"
    /\ last.ev = "click"
    /\ Truthy(last.hov0)
    /\ last.hov0[1] # last.target[1].id
    /\ ~Truthy(last.sel0)
    /\ last.target[1] # plugins[Len(plugins)]

\* C3: the overlay is shown exactly when a selection is set, and after the
\* close action there is no selection and no overlay.
C3_CloseClears ==
    /\ Truthy(Overlay) <=> Truthy(Selection)
    /\ last.ev = "close" => (~Truthy(Selection) /\ ~Truthy(Overlay))

C3_Witness ==
    /\ last.ev = "close"
    /\ Truthy(last.sel0)
    /\ mounted = "timeline"

\* C4 (as claimed): a pointer leave of an entity other than the hovered one
\* is a no-op, the hovered id stays.
C4_LeaveOtherIsNoOp ==
    (last.ev = "leave" /\ Truthy(last.hov0) /\ last.hov0[1] # last.target[1].id)
        => hovered = last.hov0

\* C5 (as claimed): after a pointer enter of an entity the hovered id is that
\* entity's, and at most one plugin card is rendered as hovered.
C5_SingleHover ==
    /\ last.ev = "enter" => hovered = Some(last.target[1].id)
    /\ Cardinality(HoveredCubes) <= 1

\* C6 (as claimed): the selected and the hovered entity are entities of the
\* current snapshot; a bind that removes the entity clears the state.
C6_ClearedWhenEntityGone ==
    /\ SelectedIds \subseteq BoundIds
    /\ Truthy(hovered) => hovered[1] \in BoundIds

\* C7 (as claimed): every link with a missing endpoint is dropped and a
\* warning is recorded for it; every node is rendered and every link with
\* both endpoints present yields a line.
C7_DanglingLinkWarned ==
    /\ Len(RenderNodes(nodes, activeNode)) = Len(nodes)
    /\ \A i \in 1..Len(links) :
          Truthy(RenderLinks(nodes, links)[i])
              <=> ({links[i].source, links[i].target} \subseteq BoundIds)
    /\ SkippedLinks(nodes, links) # {} => Len(warnings) >= Cardinality(SkippedLinks(nodes, links))

\* C8: whether a link yields a line depends only on the current nodes and
\* links: it does exactly when both its endpoints are ids of current nodes,
\* whatever was bound before, and the line joins nodes with those ids.
C8_LinkResolutionByCurrentSets ==
    mounted = "mesh" =>
        \A i \in 1..Len(links) :
            LET line == RenderLinks(nodes, links)[i]
            IN  /\ Truthy(line) <=> ({links[i].source, links[i].target} \subseteq BoundIds)
                /\ Truthy(line) =>
                      \E a, b \in 1..Len(nodes) :
                          /\ nodes[a].id = links[i].source
                          /\ nodes[b].id = links[i].target
                          /\ line[1].array = nodes[a].position \o nodes[b].position

C8_Witness ==
    /\ mounted = "mesh"
    /\ last.ev = "bind"
    /\ \E i \in 1..Len(links) :
          /\ links[i] \in last.skipped0
          /\ Truthy(RenderLinks(nodes, links)[i])

\* C9 (as claimed): the number of entities rendered equals the number of
\* distinct ids of the snapshot.
C9_CountIsDistinctIds ==
    mounted \in {"mesh", "plugins"} => RenderedCount = Cardinality(BoundIds)

\* C10: a bind of the snapshot that is already bound changes nothing the
\* panel holds or shows: props, state cells, rendered elements, svg marks.
C10_BindIdempotent ==
    [][(last'.ev = "bind" /\ last'.same) => PanelState' = PanelState]_vars

C10_Witness ==
    /\ mounted = "timeline"
    /\ last.ev = "bind"
    /\ last.same
    /\ Len(events) > 1
    /\ Truthy(tlSelected)

\* The data of the svg children of one tag, in document order
TagData(children, tag) ==
    LET OfTag(m) == m.tag = tag
        sel == SelectSeq(children, OfTag)
    IN  [k \in 1..Len(sel) |-> sel[k].datum[1]]

\* The keys of the entities the rendered component draws a mark for
RenderedKeys ==
    CASE mounted = "mesh" ->
            {RenderNodes(nodes, activeNode)[i].key : i \in 1..Len(nodes)}
      [] mounted = "plugins" ->
            {RenderCubes(plugins, hovered)[i].key : i \in 1..Len(plugins)}
      [] mounted = "timeline" ->
            {svg[k].datum[1] : k \in {j \in 1..Len(svg) : Truthy(svg[j].datum)}}
      [] OTHER -> {}

\* The keys of every entity the component holds or shows: the marks, the
\* selection with its overlay, and the hover
HeldKeys ==
    RenderedKeys \cup SelectedIds
        \cup (IF mounted = "plugins" THEN {hovered[k] : k \in 1..Len(hovered)} ELSE {})

\* C11 (as claimed): the entities the panel holds or renders are exactly
\* those of the latest snapshot: every entity of the snapshot has its mark,
\* the timeline's marks are the snapshot's events in order, and no entity
\* absent from the snapshot is still held or shown.
C11_SnapshotReplacesEntities ==
    /\ HeldKeys = BoundIds
    /\ mounted = "timeline" =>
          /\ TagData(svg, "circle") = events
          /\ TagData(svg, "text") = events

\* C12 (as claimed): every emotion scalar the orb uses is within [0, 1]
\* (0..10 tenths): a frame derives the scale from the input clamped to that
\* range, and an input outside it has a warning recorded.
C12_EmotionClamped ==
    (mounted = "orb" /\ last.ev = "frame") =>
        LET Clamp(v) == IF v < 0 THEN 0 ELSE IF v > 10 THEN 10 ELSE v
            used == [stress |-> Clamp(emotion.stress),
                     focus |-> Clamp(emotion.focus),
                     curiosity |-> Clamp(emotion.curiosity)]
        IN  /\ orbScale = OrbScale(used)
            /\ used # emotion => Len(warnings) > 0

\* The chronological rank of a time string of the data: the stub lists its
\* times in ascending order
TimeRank(t) == CHOOSE k \in 1..Len(timelineStub) : timelineStub[k].time = t

\* C13 (as claimed): whatever the order of the events array, the timeline
\* position increases strictly with time: of two event circles, the one
\* with the earlier time is drawn further left.
C13_PositionIncreasesWithTime ==
    mounted = "timeline" =>
        \A a, b \in {k \in 1..Len(svg) : svg[k].tag = "circle"} :
            TimeRank(svg[a].datum[1].time) < TimeRank(svg[b].datum[1].time)
                => svg[a].x < svg[b].x

C15_NothingRunsAfterUnmount ==
    [][mounted = "none" =>
          /\ frames' = frames
          /\ UNCHANGED <<drops, animationId, rafPending>>
          /\ UNCHANGED <<emotion, orbRotation, orbScale>>
          /\ PanelState' = PanelState]_vars

\* AmbientLayer unmounted while its loop was running, its second request
\* pending, with the frame budget not yet spent
C15_Witness ==
    /\ mounted = "none"
    /\ last.ev = "unmount"
    /\ last.panel = "ambient"
    /\ animationId = Some(2)
    /\ rafPending = {}
    /\ frames < MaxFrames

\* The props and state cells of one panel
PanelVars(p) ==
    CASE p = "mesh" -> <<nodes, links, activeNode>>
      [] p = "plugins" -> <<plugins, hovered, selected>>
      [] p = "timeline" -> <<events, tlSelected, svg>>
      [] p = "orb" -> <<emotion>>

Panels == {"mesh", "plugins", "timeline", "orb"}

C17_ClickThenClose ==
    mounted = "mesh" =>
        /\ last.ev = "click" =>
              /\ Truthy(activeNode) /\ activeNode[1].id = last.target[1].id
              /\ MeshOverlay(activeNode)
                    = Some([title |-> last.target[1].label, type |-> last.target[1].type])
        /\ last.ev = "close" =>
              /\ Truthy(last.sel0)
              /\ activeNode = None
              /\ MeshOverlay(activeNode) = None

\* A node clicked that is not the first of its id in the snapshot
C17_Witness ==
    /\ mounted = "mesh"
    /\ last.ev = "click"
    /\ last.target[1].label = "E1b"
    /\ nodes[1].id = last.target[1].id /\ nodes[1].label # "E1b"

\* The labels the rendered component displays: the node labels, the labels
\* of the timeline's text marks, the names in the details of the cubes, and
\* the heading of the overlay
DisplayedTexts ==
    (CASE mounted = "mesh" ->
             {RenderNodes(nodes, activeNode)[i].label : i \in 1..Len(nodes)}
       [] mounted = "plugins" ->
             {RenderCubes(plugins, hovered)[i].details[1] :
                 i \in {j \in 1..Len(plugins) : Truthy(RenderCubes(plugins, hovered)[j].details)}}
       [] mounted = "timeline" ->
             {svg[k].text : k \in {j \in 1..Len(svg) : svg[j].tag = "text"}}
       [] OTHER -> {})
        \cup {Overlay[k].title : k \in 1..Len(Overlay)}

\* The labels of the entities of the current snapshot
EntityLabels ==
    CASE mounted = "mesh" -> {nodes[i].label : i \in 1..Len(nodes)}
      [] mounted = "plugins" -> {plugins[i].name : i \in 1..Len(plugins)}
      [] mounted = "timeline" -> {events[i].label : i \in 1..Len(events)}
      [] OTHER -> {}

\* C18 (as claimed): right after a mount with the default data, before any
\* pointer event, the component displays the label of every entity: every
\* node label, every event label, every plugin name.
C18_LabelsShownAtMount ==
    (/\ last.ev = "mount"
     /\ nodes = nodesStub \/ plugins = pluginsStub \/ events = timelineStub)
        => EntityLabels \subseteq DisplayedTexts

\* C19: a pointer event that hits no entity is no error and no event: it
\* changes neither the hover nor the selection, enters and clicks nothing,
\* records no warning and leaves the component mounted.
C19_MissChangesNothing ==
    last.ev = "miss" =>
        /\ Selection = last.sel0
        /\ mounted = "plugins" => hovered = last.hov0
        /\ warnings = <<>>
        /\ mounted = last.panel

\* A click on a label of the timeline while an event is selected
C19_Witness ==
    /\ mounted = "timeline"
    /\ last.ev = "miss"
    /\ Truthy(tlSelected)
    /\ Len(events) = MaxEvents

\* C20 (as claimed): when the ambient layer cannot acquire its drawing
\* context, the failure is confined to it: the page stays mounted and the
\* sibling panels keep running, their marks drawn.
C20_FailureConfined ==
    (last.ev = "effect" /\ last.panel = "home" /\ ~ctx) =>
        /\ mounted = "home"
        /\ TagData(svg, "circle") = events

\* C21 (as claimed): a node's colour intensity is 1.5 (15 tenths) exactly
\* when the node is hovered, the pointer having entered it last, or
\* selected, its id being the selected id; it is 0.2 otherwise.
C21_IntensityWhenHoveredOrSelected ==
    mounted = "mesh" =>
        \A i \in 1..Len(nodes) :
            LET isHovered == last.ev = "enter" /\ last.target = Some(nodes[i])
                isSelected == Truthy(activeNode) /\ activeNode[1].id = nodes[i].id
                intensity == RenderNodes(nodes, activeNode)[i].emissiveIntensity
            IN  /\ intensity \in {2, 15}
                /\ intensity = 15 <=> (isHovered \/ isSelected)

\* C22: in every frame a card rendered hovered keeps its rotation and has
\* the uniform scale 1.4, and any other card turns by the fixed step (0.005
\* about x, 0.01 about y) and has scale 1; no other event turns a card, so
\* the rotation resumes from the frozen value when the hover ends.
C22_FrozenWhileHovered ==
    [][/\ (last'.ev = "frame" /\ last'.panel = "plugins") =>
              \A i \in 1..Len(plugins) :
                  IF hovered = Some(plugins[i].id)
                  THEN /\ cubeRotation'[i] = cubeRotation[i]
                       /\ RenderCubes(plugins, hovered)[i].scale = <<14, 14, 14>>
                  ELSE /\ cubeRotation'[i]
                            = <<cubeRotation[i][1] + 5, cubeRotation[i][2] + 10>>
                       /\ RenderCubes(plugins, hovered)[i].scale = <<10, 10, 10>>
       /\ last'.ev # "frame" => cubeRotation' = cubeRotation]_vars

\* The first card was frozen during one of three frames and then turned
\* again from where it stood, so it is one step behind the second
C22_Witness ==
    /\ mounted = "plugins"
    /\ last.ev = "frame"
    /\ hovered = None
    /\ Len(plugins) >= 2
    /\ cubeRotation[1] = <<10, 20>>
    /\ cubeRotation[2] = <<15, 30>>

\* C23: after a frame the orb's scale is, per axis, 1 + stress * 0.2,
\* 1 + focus * 0.1 and 1 + curiosity * 0.15 of the emotion it was given (in
\* thousandths, the scalars in tenths), and the rotation step of a frame
\* never decreases when the stress increases.
C23_ScaleLawAndMonotoneRotation ==
    /\ (mounted = "orb" /\ last.ev = "frame") =>
          orbScale = <<1000 + 20 * emotion.stress,
                       1000 + 10 * emotion.focus,
                       1000 + 15 * emotion.curiosity>>
    /\ \A e1, e2 \in EmotionInputs :
          e1.stress <= e2.stress => OrbRotationDelta(e1) <= OrbRotationDelta(e2)

\* A frame of the orb under the highest stress of the inputs
C23_Witness ==
    /\ mounted = "orb"
    /\ last.ev = "frame"
    /\ \A e \in EmotionInputs : e.stress <= emotion.stress
    /\ orbScale[1] > 1000

C25_DerivationFailureRecovered ==
    (mounted = "orb" /\ last.panel = "orb" /\ DerivationThrows(emotion)
        /\ last.ev \in {"frame", "throw"})
            => last.ev = "frame"

\* C26: in the plugin panel hover and selection are independent: a pointer
\* enter or leave leaves the selected plugin as it was, a click or a close
\* leaves the hovered id as it was, and no event other than a click or a
\* close changes the selection.
C26_HoverSelectionIndependent ==
    (mounted = "plugins" /\ last.panel = "plugins" /\ last.ev # "mount") =>
        /\ last.ev \in {"enter", "leave"} => selected = last.sel0
        /\ last.ev \in {"click", "close"} => hovered = last.hov0
        /\ selected # last.sel0 => last.ev \in {"click", "close"}

\* The overlay closed while a card is hovered
C26_Witness ==
    /\ mounted = "plugins"
    /\ last.ev = "close"
    /\ Truthy(hovered)
    /\ selected = None

\* C27 (as claimed): a detail overlay shows the entity the current snapshot
\* holds under the selected id: whenever the snapshot's ids are distinct and
\* one of its entities has the selected id, the overlay is the one that
\* entity would give.
C27_OverlayShowsCurrentEntity ==
    /\ (mounted = "mesh" /\ Truthy(activeNode)) =>
          LET held == {i \in 1..Len(nodes) : nodes[i].id = activeNode[1].id}
          IN  (Cardinality(BoundIds) = Len(nodes) /\ held # {}) =>
                  \A i \in held : MeshOverlay(activeNode) = MeshOverlay(Some(nodes[i]))
    /\ (mounted = "plugins" /\ Truthy(selected)) =>
          LET held == {i \in 1..Len(plugins) : plugins[i].id = selected[1].id}
          IN  (Cardinality(BoundIds) = Len(plugins) /\ held # {}) =>
                  \A i \in held : ChamberOverlay(selected) = ChamberOverlay(Some(plugins[i]))

C29_OnePendingFrame ==
    /\ Cardinality(rafPending) <= 1
    /\ rafPending \subseteq {animationId[k] : k \in 1..Len(animationId)}
    /\ (last.panel = "ambient" /\ last.ev = "draw") =>
          /\ rafPending = {animationId[1]}
          /\ mounted # "none"
    /\ mounted = "none" => rafPending = {}

\* The loop ran the whole frame budget: each draw consumed its request and
\* left the next one pending
C29_Witness ==
    /\ mounted = "ambient"
    /\ last.ev = "draw"
    /\ frames = MaxFrames
    /\ animationId = Some(MaxFrames)
    /\ rafPending = {MaxFrames}

\* C30: every request is answered exactly once; a GET gets status 200 and
\* the not-implemented message, any other method gets status 405 and no
\* body; the answer depends on the request alone, not on earlier requests.
C30_AnsweredOnceByMethod ==
    \A i \in 1..Len(responses) :
        /\ responses[i].res.sends = 1
        /\ responses[i].method = "GET" =>
              /\ responses[i].res.status = 200
              /\ responses[i].res.body = Some([message |-> "WebSocket bridge not implemented yet."])
        /\ responses[i].method # "GET" =>
              /\ responses[i].res.status = 405
              /\ responses[i].res.body = None
        /\ \A j \in 1..Len(responses) :
              responses[i].method = responses[j].method => responses[i].res = responses[j].res

\* A GET answered after a POST and before another GET
C30_Witness ==
    /\ mounted = "api"
    /\ Len(responses) >= 3
    /\ responses[1].method = "POST"
    /\ responses[2].method = "GET"
    /\ responses[3].method = "GET"
    /\ responses[3].res.status = 200
====
